---- MODULE Spec2Model ----
(***************************************************************************)
(* Scaling utilities of dials: the intensity normaliser calc_normE2, the   *)
(* Wilson outlier flagger set_wilson_outliers and the crystal-frame vector *)
(* transform calc_crystal_frame_vectors / align_rotation_axis_along_z of   *)
(* algorithms/scaling/scaling_utilities.py.                                *)
(*                                                                         *)
(* A reflection table is a column store: a function from column names to   *)
(* sequences of equal length.  Entry i of every column describes a group   *)
(* of mult[i] reflections that agree in every column, so that tables of    *)
(* tens of thousands of reflections (the thresholds of calc_normE2) are    *)
(* small values; every operation of the module treats equal rows equally.  *)
(***************************************************************************)
EXTENDS Integers, Sequences, FiniteSets, Bags, TLC

VARIABLES reflection_table, mult, experiments, status, calls, entry, table0,
          call

vars == <<reflection_table, mult, experiments, status, calls, entry, table0,
          call>>

\* the calls one behaviour makes
MaxCalls == 2

----------------------------------------------------------------------------
(* flex.double values.  A double is a reduced fraction <<n, m>> with m > 0; *)
(* the IEEE values the code can produce by dividing by zero are            *)
(* Inf = <<1, 0>>, NegInf = <<-1, 0>> and NaN = <<0, 0>>.                  *)

Abs(x) == IF x < 0 THEN -x ELSE x

RECURSIVE Gcd(_, _)
Gcd(a, b) == IF b = 0 THEN a ELSE Gcd(b, a % b)

Frac(n, m) ==
  LET g == Gcd(Abs(n), m) IN <<(IF n < 0 THEN -(Abs(n) \div g) ELSE n \div g), m \div g>>

Inf == <<1, 0>>
NegInf == <<-1, 0>>
NaN == <<0, 0>>
Zero == <<0, 1>>
One == <<1, 1>>

IsFinite(x) == x[2] # 0

\* a < b; cross multiplication gives the IEEE answer for the infinities and
\* FALSE for every comparison with NaN
Lt(a, b) == a[1] * b[2] < b[1] * a[2]

Sub(a, b) ==
  IF IsFinite(a) /\ IsFinite(b) THEN Frac(a[1] * b[2] - b[1] * a[2], a[2] * b[2])
  ELSE IF a = NaN \/ b = NaN \/ a = b THEN NaN
  ELSE IF IsFinite(b) THEN a
  ELSE IF b = Inf THEN NegInf ELSE Inf

Add(a, b) ==
  IF IsFinite(a) /\ IsFinite(b) THEN Frac(a[1] * b[2] + b[1] * a[2], a[2] * b[2])
  ELSE IF a = NaN \/ b = NaN THEN NaN
  ELSE IF IsFinite(b) THEN a
  ELSE IF IsFinite(a) \/ a = b THEN b ELSE NaN

\* a / b for finite a and b, as IEEE division: x/0 is an infinity, 0/0 is NaN
Div(a, b) ==
  IF b[1] = 0 THEN (IF a[1] > 0 THEN Inf ELSE IF a[1] < 0 THEN NegInf ELSE NaN)
  ELSE IF b[1] > 0 THEN Frac(a[1] * b[2], a[2] * b[1])
  ELSE Frac(-(a[1] * b[2]), a[2] * (-b[1]))

\* a * b
Mul(a, b) ==
  IF IsFinite(a) /\ IsFinite(b) THEN Frac(a[1] * b[1], a[2] * b[2])
  ELSE IF a = NaN \/ b = NaN \/ a = Zero \/ b = Zero THEN NaN
  ELSE IF Lt(a, Zero) = Lt(b, Zero) THEN Inf ELSE NegInf

\* a / k and k * a for a double a and a positive integer k
DivInt(a, k) == IF IsFinite(a) THEN Frac(a[1], a[2] * k) ELSE a
MulInt(k, a) == IF IsFinite(a) THEN Frac(k * a[1], a[2]) ELSE IF k = 0 THEN NaN ELSE a

----------------------------------------------------------------------------
(* flex arrays *)

\* the array with the entries of f, as a tuple
Array(f) == <<>> \o f

\* the sum of an array of integers: the positive entries and the negative
\* ones are bags of units
Sum(s) ==
  BagCardinality([i \in {j \in 1..Len(s) : s[j] > 0} |-> s[i]])
    - BagCardinality([i \in {j \in 1..Len(s) : s[j] < 0} |-> -s[i]])

Not(sel) == Array([i \in 1..Len(sel) |-> ~sel[i]])
And(a, b) == Array([i \in 1..Len(a) |-> a[i] /\ b[i]])

\* the indices a boolean array selects, ascending
Indices(sel) == SelectSeq([i \in 1..Len(sel) |-> i], LAMBDA i : sel[i])

\* array.select(sel)
Select(col, sel) ==
  LET idx == Indices(sel) IN Array([k \in 1..Len(idx) |-> col[idx[k]]])

\* array.set_selected(sel, value)
SetSelected(col, sel, v) ==
  Array([i \in 1..Len(col) |-> IF sel[i] THEN v ELSE col[i]])

\* array.set_selected(sel, values): the k-th selected entry receives values[k]
RECURSIVE Scatter(_, _, _, _)
Scatter(col, idx, vals, k) ==
  IF k > Len(idx) THEN col
  ELSE Scatter([col EXCEPT ![idx[k]] = vals[k]], idx, vals, k + 1)
SetSelectedArray(col, sel, vals) == Scatter(col, Indices(sel), vals, 1)

\* min(array), max(array) of a non-empty array of doubles
RECURSIVE MinTo(_, _)
MinTo(s, n) ==
  IF n = 1 THEN s[1] ELSE LET m == MinTo(s, n - 1) IN IF Lt(s[n], m) THEN s[n] ELSE m
RECURSIVE MaxTo(_, _)
MaxTo(s, n) ==
  IF n = 1 THEN s[1] ELSE LET m == MaxTo(s, n - 1) IN IF Lt(m, s[n]) THEN s[n] ELSE m
Min(s) == MinTo(s, Len(s))
Max(s) == MaxTo(s, Len(s))

----------------------------------------------------------------------------
(* reflection tables *)

\* table[name] = column
SetCol(t, name, col) == (name :> col) @@ t

\* del table[name]: erasing a column the table does not hold changes nothing
DelCol(t, name) == [c \in DOMAIN t \ {name} |-> t[c]] @@ <<>>

\* the number of row groups of a table
NRows(t) == Len(t["intensity"])

\* table.select(sel): a copy that holds the selected rows of every column
SelectRows(t, sel) == [c \in DOMAIN t |-> Select(t[c], sel)] @@ <<>>

\* table.get_flags(flag)
get_flags(t, flag) == Array([i \in 1..NRows(t) |-> flag \in t["flags"][i]])

\* table.set_flags(sel, flag): the flag is or-ed into the selected rows
set_flags(t, sel, flag) ==
  SetCol(t, "flags",
         Array([i \in 1..NRows(t) |->
                  IF sel[i] THEN t["flags"][i] \cup {flag} ELSE t["flags"][i]]))

----------------------------------------------------------------------------
(* The columns.  "miller_index" holds, for each row, the symmetry class of *)
(* its index under the crystal symmetry ("centric" or "acentric"), which   *)
(* is all that calc_normE2 derives from the index.  "intensity" holds      *)
(* integers.  "d" holds distances of the form sqrt(q) for a fraction       *)
(* q >= 0 and an entry is written as q, so that 0.0 is Zero, 1.0 is One    *)
(* and 1/d**2 is a fraction.  "flags" holds the set of flags of the row.   *)

\* miller_array.centric_flags().data()
centric_flags(miller_index) ==
  Array([i \in 1..Len(miller_index) |-> miller_index[i] = "centric"])

\* d**2 of an entry of the d column
Pow2(d) == d

\* 1.0 / x
Recip(x) == IF x[1] = 0 THEN Inf ELSE Frac(x[2], x[1])

\* 1.0/d**2 over a d column
resolution_of(d) == Array([i \in 1..Len(d) |-> Recip(Pow2(d[i]))])

\* array.count(True), in reflections
CountTrue(sel, m) == Sum(Array([i \in 1..Len(sel) |-> IF sel[i] THEN m[i] ELSE 0]))

Threshold20 == 20000
Shells20 == 20
Threshold15 == 15000
Shells15 == 15
MinAcentrics == 10000
Shells10 == 10
\* the value of the bin-count rule on the branch that returns early
Fallback == 0

\* the rule with the two upper thresholds met rather than exceeded
n_refl_shells_rule_AtThreshold(n_centrics, n_acentrics) ==
  IF n_acentrics >= Threshold20 \/ n_centrics >= Threshold20 THEN Shells20
  ELSE IF n_acentrics >= Threshold15 \/ n_centrics >= Threshold15 THEN Shells15
  ELSE IF n_acentrics < MinAcentrics THEN Fallback
  ELSE Shells10

\* the branch on the class counts of the statistics subset
n_refl_shells_rule(n_centrics, n_acentrics) ==
  IF n_acentrics > Threshold20 \/ n_centrics > Threshold20 THEN Shells20
  ELSE IF n_acentrics > Threshold15 \/ n_centrics > Threshold15 THEN Shells15
  ELSE IF n_acentrics < MinAcentrics THEN Fallback
  ELSE Shells10

\* the copy of the intensities without the clamp
intensity_for_norm_of_Unclamped(intensity) == intensity

\* rt_subset['intensity_for_norm']: a copy of the intensities with the
\* negative ones set to 0.0
intensity_for_norm_of(intensity) ==
  SetSelected(intensity, [i \in 1..Len(intensity) |-> intensity[i] < 0], 0)

(* The bin width.  step = (max - min + 1e-8) / n_refl_shells is written    *)
(* [q |-> (max - min)/n_refl_shells, e |-> 1]: q plus e times              *)
(* 1e-8/n_refl_shells.  A shell limit lo + i*step is [q, e] likewise.      *)
(* Every resolution and every q of a table of this model is a multiple of  *)
(* 1/(n_refl_shells * D) for a common denominator D of the resolutions,    *)
(* and e * 1e-8 / n_refl_shells with e <= 20 is below that grid as long as *)
(* D < 5 * 10^6, so a comparison of a resolution with a limit is decided   *)
(* by q and, when the two are equal, by the sign of e.                     *)
step_of(resolution, n_refl_shells) ==
  [q |-> DivInt(Sub(Max(resolution), Min(resolution)), n_refl_shells), e |-> 1]

Limit(lo, step, i) == [q |-> Add(lo, MulInt(i, step.q)), e |-> i * step.e]

\* r > limit, r <= limit, r < limit for a finite resolution r
GtLimit(r, lim) == Lt(lim.q, r) \/ (r = lim.q /\ lim.e < 0)
LeLimit(r, lim) == Lt(r, lim.q) \/ (r = lim.q /\ lim.e >= 0)
LtLimit(r, lim) == Lt(r, lim.q) \/ (r = lim.q /\ lim.e > 0)

(* The resolution binner of one class (setup_binner_d_star_sq_step with    *)
(* automatic limits, then mean(use_binning=...) and limits()): the limits  *)
(* start at the lowest resolution of the class and advance by step until   *)
(* one lies above the highest resolution of the class; bin i holds the     *)
(* members with limit[i] <= resolution < limit[i+1]; the mean of a bin     *)
(* without members is None.                                                *)
None == <<>>

RECURSIVE NBins(_, _, _, _)
NBins(lo, hi, step, k) ==
  IF LtLimit(hi, Limit(lo, step, k)) THEN k ELSE NBins(lo, hi, step, k + 1)

binner_limits(resolution, step) ==
  LET lo == Min(resolution)
      nb == NBins(lo, Max(resolution), step, 1)
  IN  Array([k \in 1..(nb + 1) |-> Limit(lo, step, k - 1)])

bin_mean(resolution, data, m, lower, upper) ==
  LET in == Array([i \in 1..Len(resolution) |->
                     ~LtLimit(resolution[i], lower) /\ LtLimit(resolution[i], upper)])
      n  == CountTrue(in, m)
      s  == Sum(Array([i \in 1..Len(data) |-> IF in[i] THEN m[i] * data[i] ELSE 0]))
  IN  IF n = 0 THEN None ELSE Frac(s, n)

\* mean(use_binning=binner).data[1:-1]
binner_means(resolution, data, m, limits) ==
  Array([k \in 1..(Len(limits) - 1) |->
           bin_mean(resolution, data, m, limits[k], limits[k + 1])])

\* a pass that takes the lower limit of its shell as well
shell_sel_ClosedBelow(sel1, resolution, lower, upper) ==
  Array([i \in 1..Len(resolution) |->
           sel1[i] /\ ~LtLimit(resolution[i], lower) /\ LeLimit(resolution[i], upper)])

\* the rows one pass of a shell loop selects: sel1 & sel2 & sel3
shell_sel(sel1, resolution, lower, upper) ==
  Array([i \in 1..Len(resolution) |->
           sel1[i] /\ GtLimit(resolution[i], lower) /\ LeLimit(resolution[i], upper)])

\* intensities / mean
divide_by_mean(intensities, mean) ==
  Array([k \in 1..Len(intensities) |-> Div(<<intensities[k], 1>>, mean)])

(* One shell loop over range(0, len(limits) - 1), from pass i on.  A pass  *)
(* whose mean is None raises (a TypeError of the division) and leaves the  *)
(* Esq of the passes before it.                                            *)
RECURSIVE shell_loop(_, _, _, _, _, _, _)
shell_loop(Esq, sel1, resolution, intensity, limits, means, i) ==
  IF i > Len(limits) - 1 THEN [Esq |-> Esq, ok |-> TRUE]
  ELSE IF means[i] = None THEN [Esq |-> Esq, ok |-> FALSE]
  ELSE LET sel == shell_sel(sel1, resolution, limits[i], limits[i + 1])
           intensities == Select(intensity, sel)
       IN  shell_loop(SetSelectedArray(Esq, sel, divide_by_mean(intensities, means[i])),
                      sel1, resolution, intensity, limits, means, i + 1)

----------------------------------------------------------------------------
(* calc_normE2 *)

\* the bin width of a call that computed none
NoStep == [q |-> Zero, e |-> 0]

\* the local variables of a call that the mutations of the table do not show
NoLocals ==
  [op |-> "none", path |-> "none", n_centrics |-> 0, n_acentrics |-> 0,
   n_refl_shells |-> 0, rt_subset |-> <<>>, subset_mult |-> <<>>,
   step |-> NoStep, centric_bin_limits |-> <<>>, mean_centric_values |-> <<>>,
   acentric_bin_limits |-> <<>>, mean_acentric_values |-> <<>>, d0_sel |-> <<>>,
   cross_prod_uz |-> <<>>]

\* rt_subset with its three working columns
rt_subset_of(t) ==
  LET bad_refl_sel == get_flags(t, "bad_for_scaling")
      sub  == SelectRows(t, Not(bad_refl_sel))
      sub1 == SetCol(sub, "resolution", resolution_of(sub["d"]))
      sub2 == SetCol(sub1, "intensity_for_norm", intensity_for_norm_of(sub["intensity"]))
  IN  SetCol(sub2, "centric_flag", centric_flags(sub["miller_index"]))

\* the early return that leaves centric_flag in place
fallback_return_KeepFlag(t) ==
  LET t1 == SetCol(t, "Esq", [i \in 1..NRows(t) |-> One])
  IN  DelCol(DelCol(t1, "intensity_for_norm"), "resolution")

\* the early return: Esq is 1.0 on the full table, the working columns go
fallback_return(t) ==
  LET t1 == SetCol(t, "Esq", [i \in 1..NRows(t) |-> One])
  IN  DelCol(DelCol(DelCol(t1, "intensity_for_norm"), "centric_flag"), "resolution")

\* the full table before the shell loops: Esq 0.0, the centric flags, the
\* sentinel 1.0 in place of a zero d, the resolution
before_loops(t, d0_sel) ==
  LET t1 == SetCol(t, "Esq", [i \in 1..NRows(t) |-> Zero])
      t2 == SetCol(t1, "centric_flag", centric_flags(t["miller_index"]))
      t3 == SetCol(t2, "d", SetSelected(t["d"], d0_sel, One))
  IN  SetCol(t3, "resolution", resolution_of(t3["d"]))

\* the end of the call without the restoration of d
after_loops_KeepSentinel(t, d0_sel) ==
  LET t1 == DelCol(DelCol(DelCol(t, "intensity_for_norm"), "centric_flag"), "resolution")
  IN  SetCol(t1, "Esq", SetSelected(t1["Esq"], d0_sel, Zero))

\* the end of the call: the working columns go, then d and Esq of the rows
\* whose d was zero are set to 0.0
after_loops(t, d0_sel) ==
  LET t1 == DelCol(DelCol(DelCol(t, "intensity_for_norm"), "centric_flag"), "resolution")
      t2 == SetCol(t1, "d", SetSelected(t1["d"], d0_sel, Zero))
  IN  SetCol(t2, "Esq", SetSelected(t2["Esq"], d0_sel, Zero))

\* the members of one class in the statistics subset
class_sel(sub, centric) ==
  Array([i \in 1..NRows(sub) |-> sub["centric_flag"][i] = centric])

\* the whole call: the table it leaves, whether it returned, its locals
calc_normE2_call(t, m) ==
  LET rt_subset   == rt_subset_of(t)
      subset_mult == Select(m, Not(get_flags(t, "bad_for_scaling")))
      n_centrics  == CountTrue(rt_subset["centric_flag"], subset_mult)
      n_acentrics == Sum(subset_mult) - n_centrics
      n_refl_shells == n_refl_shells_rule(n_centrics, n_acentrics)
      base == [NoLocals EXCEPT !.op = "calc_normE2", !.n_centrics = n_centrics,
                 !.n_acentrics = n_acentrics, !.n_refl_shells = n_refl_shells,
                 !.rt_subset = rt_subset, !.subset_mult = subset_mult]
  IN
  IF n_refl_shells = Fallback
  THEN [table |-> fallback_return(t), status |-> "ok",
        locals |-> [base EXCEPT !.path = "fallback"]]
  ELSE
  LET step == step_of(rt_subset["resolution"], n_refl_shells)
      withstep == [base EXCEPT !.step = step]
  IN
  IF ~IsFinite(step.q)
  THEN \* no finite shell limits exist for this width: the binner fails
       [table |-> t, status |-> "raised", locals |-> [withstep EXCEPT !.path = "raised"]]
  ELSE
  LET csel == class_sel(rt_subset, TRUE)
      asel == class_sel(rt_subset, FALSE)
      cres == Select(rt_subset["resolution"], csel)
      ares == Select(rt_subset["resolution"], asel)
      centric_bin_limits ==
        IF n_centrics # 0 THEN binner_limits(cres, step) ELSE <<>>
      mean_centric_values ==
        IF n_centrics # 0
        THEN binner_means(cres, Select(rt_subset["intensity_for_norm"], csel),
                          Select(subset_mult, csel), centric_bin_limits)
        ELSE <<>>
      acentric_bin_limits ==
        IF n_acentrics # 0 THEN binner_limits(ares, step) ELSE <<>>
      mean_acentric_values ==
        IF n_acentrics # 0
        THEN binner_means(ares, Select(rt_subset["intensity_for_norm"], asel),
                          Select(subset_mult, asel), acentric_bin_limits)
        ELSE <<>>
      d0_sel == [i \in 1..NRows(t) |-> t["d"][i] = Zero]
      t1 == before_loops(t, d0_sel)
      loop1 ==
        IF n_centrics # 0
        THEN shell_loop(t1["Esq"], t1["centric_flag"], t1["resolution"],
                        t1["intensity"], centric_bin_limits, mean_centric_values, 1)
        ELSE [Esq |-> t1["Esq"], ok |-> TRUE]
      loop2 ==
        IF loop1.ok /\ n_acentrics # 0
        THEN shell_loop(loop1.Esq, Not(t1["centric_flag"]), t1["resolution"],
                        t1["intensity"], acentric_bin_limits, mean_acentric_values, 1)
        ELSE loop1
      t2 == SetCol(t1, "Esq", loop2.Esq)
      locals == [withstep EXCEPT !.centric_bin_limits = centric_bin_limits,
                   !.mean_centric_values = mean_centric_values,
                   !.acentric_bin_limits = acentric_bin_limits,
                   !.mean_acentric_values = mean_acentric_values,
                   !.d0_sel = d0_sel]
  IN
  IF loop2.ok
  THEN [table |-> after_loops(t2, d0_sel), status |-> "ok",
        locals |-> [locals EXCEPT !.path = "shells"]]
  ELSE [table |-> t2, status |-> "raised", locals |-> [locals EXCEPT !.path = "raised"]]

calc_normE2 ==
  /\ status = "ok"
  /\ Len(calls) < MaxCalls
  /\ LET r == calc_normE2_call(reflection_table, mult)
     IN  /\ reflection_table' = r.table
         /\ status' = r.status
         /\ call' = r.locals
  /\ entry' = reflection_table
  /\ calls' = Append(calls, "calc_normE2")
  /\ UNCHANGED <<mult, experiments, table0>>

----------------------------------------------------------------------------
(* set_wilson_outliers *)

centric_cutoff == Frac(2391, 100)
acentric_cutoff == Frac(1382, 100)

\* array >= cutoff
GtCutoff_OrEqual(col, cutoff) == Array([i \in 1..Len(col) |-> ~Lt(col[i], cutoff)])

\* array > cutoff
GtCutoff(col, cutoff) == Array([i \in 1..Len(col) |-> Lt(cutoff, col[i])])

\* the rows the two set_flags calls select
centric_outlier_sel(t) ==
  And(t["centric_flag"], GtCutoff(t["Esq"], centric_cutoff))
acentric_outlier_sel(t) ==
  And(Not(t["centric_flag"]), GtCutoff(t["Esq"], acentric_cutoff))

\* the whole call; reading a column the table does not hold raises
set_wilson_outliers_call(t) ==
  IF ~({"centric_flag", "Esq"} \subseteq DOMAIN t)
  THEN [table |-> t, status |-> "raised"]
  ELSE [table |-> set_flags(set_flags(t, centric_outlier_sel(t), "outlier_in_scaling"),
                            acentric_outlier_sel(t), "outlier_in_scaling"),
        status |-> "ok"]

set_wilson_outliers ==
  /\ status = "ok"
  /\ Len(calls) < MaxCalls
  /\ LET r == set_wilson_outliers_call(reflection_table)
     IN  /\ reflection_table' = r.table
         /\ status' = r.status
  /\ call' = [NoLocals EXCEPT !.op = "set_wilson_outliers"]
  /\ entry' = reflection_table
  /\ calls' = Append(calls, "set_wilson_outliers")
  /\ UNCHANGED <<mult, experiments, table0>>

----------------------------------------------------------------------------
(* The crystal frame.  A vec3_double entry is a triple of doubles.  An     *)
(* angle in radians is written as the fraction f with angle = f * pi, and  *)
(* the angles of this model are multiples of pi/2, whose sines and cosines *)
(* are -1, 0 and 1.                                                        *)

Vec3(x, y, z) == <<Frac(x, 1), Frac(y, 1), Frac(z, 1)>>

\* the quarter turns of an angle, 0..3
Quarter(f) == ((2 * f[1]) \div f[2]) % 4
Cos(f) == <<One, Zero, Frac(-1, 1), Zero>>[Quarter(f) + 1]
Sin(f) == <<Zero, One, Zero, Frac(-1, 1)>>[Quarter(f) + 1]

\* acos of -1, 0 and 1
Acos(x) ==
  IF x = One THEN Zero
  ELSE IF x = Zero THEN Frac(1, 2)
  ELSE IF x = Frac(-1, 1) THEN One
  ELSE NaN

\* x ** 0.5 of the square of an integer
Sqrt(x) == Frac(CHOOSE k \in 0..x[1] : k * k = x[1], 1)

Modulus(u) == Sqrt(Add(Add(Mul(u[1], u[1]), Mul(u[2], u[2])), Mul(u[3], u[3])))

(* rotate_vectors_about_axis(rot_axis, vectors, angles): the axis is       *)
(* normalised, then entry i of vectors is turned about it by angles[i]:    *)
(* v cos + (u x v) sin + u (u . v)(1 - cos).  An axis of length zero       *)
(* normalises to NaN components, and so does every rotated vector.         *)
rotate_vectors_about_axis(rot_axis, vectors, angles) ==
  LET m  == Modulus(rot_axis[1])
      ux == Div(rot_axis[1][1], m)
      uy == Div(rot_axis[1][2], m)
      uz == Div(rot_axis[1][3], m)
      rotated(v, a) ==
        LET c   == Cos(a)
            sn  == Sin(a)
            dot == Add(Add(Mul(ux, v[1]), Mul(uy, v[2])), Mul(uz, v[3]))
            k   == Mul(dot, Sub(One, c))
            cx  == Sub(Mul(uy, v[3]), Mul(uz, v[2]))
            cy  == Sub(Mul(uz, v[1]), Mul(ux, v[3]))
            cz  == Sub(Mul(ux, v[2]), Mul(uy, v[1]))
        IN  <<Add(Add(Mul(v[1], c), Mul(cx, sn)), Mul(ux, k)),
              Add(Add(Mul(v[2], c), Mul(cy, sn)), Mul(uy, k)),
              Add(Add(Mul(v[3], c), Mul(cz, sn)), Mul(uz, k))>>
  IN  Array([i \in 1..Len(vectors) |-> rotated(vectors[i], angles[i])])

\* the re-alignment without the case of an axis already along z
align_rotation_axis_along_z_Always(exp_rot_axis, vectors) ==
  LET u == exp_rot_axis[1]
      cross_prod_uz == <<<<u[2], Mul(Frac(-1, 1), u[1]), Zero>>>>
      angle_between_u_z == Acos(Div(u[3], Modulus(u)))
      phi == [i \in 1..Len(vectors) |-> angle_between_u_z]
  IN  rotate_vectors_about_axis(cross_prod_uz, vectors, phi)

align_rotation_axis_along_z(exp_rot_axis, vectors) ==
  IF exp_rot_axis = <<Vec3(0, 0, 1)>> THEN vectors
  ELSE LET u == exp_rot_axis[1]
           cross_prod_uz == <<<<u[2], Mul(Frac(-1, 1), u[1]), Zero>>>>
           angle_between_u_z == Acos(Div(u[3], Modulus(u)))
           phi == [i \in 1..Len(vectors) |-> angle_between_u_z]
       IN  rotate_vectors_about_axis(cross_prod_uz, vectors, phi)

\* the axis align_rotation_axis_along_z hands to rotate_vectors_about_axis,
\* as the one-entry array cross_prod_uz; <<>> when it returns before
align_cross_prod_uz(exp_rot_axis) ==
  IF exp_rot_axis = <<Vec3(0, 0, 1)>> THEN <<>>
  ELSE <<<<exp_rot_axis[1][2], Mul(Frac(-1, 1), exp_rot_axis[1][1]), Zero>>>>

\* phi * -1.0 * pi / 180 over a phi column in degrees
angles_of(phi) == Array([i \in 1..Len(phi) |-> Frac(-phi[i], 180)])

calc_crystal_frame_vectors_call(t, exps) ==
  LET t1 == SetCol(t, "s0", Array([i \in 1..Len(t["phi"]) |-> exps.s0]))
      rot_axis == <<exps.rotation_axis>>
      angles == angles_of(t1["phi"])
      t2 == SetCol(t1, "s1c", rotate_vectors_about_axis(rot_axis, t1["s1"], angles))
      t3 == SetCol(t2, "s0c", rotate_vectors_about_axis(rot_axis, t2["s0"], angles))
      t4 == SetCol(t3, "s1c", align_rotation_axis_along_z(rot_axis, t3["s1c"]))
  IN  SetCol(t4, "s0c", align_rotation_axis_along_z(rot_axis, t4["s0c"]))

calc_crystal_frame_vectors ==
  /\ status = "ok"
  /\ Len(calls) < MaxCalls
  /\ reflection_table' = calc_crystal_frame_vectors_call(reflection_table, experiments)
  /\ call' = [NoLocals EXCEPT !.op = "calc_crystal_frame_vectors",
                !.cross_prod_uz = align_cross_prod_uz(<<experiments.rotation_axis>>)]
  /\ entry' = reflection_table
  /\ calls' = Append(calls, "calc_crystal_frame_vectors")
  /\ UNCHANGED <<mult, experiments, status, table0>>

----------------------------------------------------------------------------
(* The tables a caller passes in. *)

\* the distinct resolutions of the large class of a table
NumPoints == 21

\* the column store of a sequence of rows
TableOf(rows, cols) == [c \in cols |-> Array([i \in 1..Len(rows) |-> rows[i][c]])] @@ <<>>

NormCols == {"miller_index", "intensity", "d", "flags"}

NormRow(class, d, intensity, flags, n) ==
  [miller_index |-> class, intensity |-> intensity, d |-> d, flags |-> flags,
   Esq |-> One, centric_flag |-> (class = "centric"), n |-> n]

\* n reflections of one class spread evenly over the resolutions
\* 1/2, 3/2, ..., NumPoints - 1/2; the three lowest have intensity low
LargeClass(class, n, low) ==
  SelectSeq([k \in 1..NumPoints |->
               NormRow(class, Frac(2, 2 * k - 1), IF k <= 3 THEN low ELSE 2, {},
                       (n \div NumPoints) + (IF k <= n % NumPoints THEN 1 ELSE 0))],
            LAMBDA r : r.n > 0)

\* the other class: n reflections at resolution 11/2
SmallClass(class, n) ==
  IF n = 0 THEN <<>> ELSE <<NormRow(class, Frac(2, 11), 2, {}, n)>>

Classes == {"centric", "acentric"}
Other(class) == IF class = "centric" THEN "acentric" ELSE "centric"

LargeCounts ==
  {5, MinAcentrics - 1, MinAcentrics, Threshold15, Threshold15 + 1,
   Threshold20, Threshold20 + 1}
SmallCounts == {0, MinAcentrics}
LowIntensities == {-1, 2}

\* one more reflection: d of 0.0, or a resolution of 1/2 (the lowest of the
\* large class), 1 (d of 1.0) or 6 (inside its range) or 40 (above it)
ProbeD == {Zero, Frac(2, 1), One, Frac(1, 6), Frac(1, 40)}
ProbeIntensities == {-3, 50}
ProbeFlags == {{}, {"bad_for_scaling"}}

LargeTable(c, n, low, k, pc, pd, pi, pf) ==
  LargeClass(c, n, low) \o SmallClass(Other(c), k) \o <<NormRow(pc, pd, pi, pf, 1)>>

\* two reflections of a table that was normalised before and whose caller
\* derived the centric flags
OutlierEsq == {Frac(1382, 100), Frac(1383, 100), Frac(2391, 100), Frac(2392, 100)}
OutlierFlags == {{}, {"outlier_in_scaling"}, {"excluded_for_scaling"}, {"bad_for_scaling"}}
OutlierRow(c, e, f) == [NormRow(c, One, 2, f, 1) EXCEPT !.Esq = e]

NoExperiments == [s0 |-> Vec3(0, 0, 0), rotation_axis |-> Vec3(0, 0, 1)]

InitTable(rows, cols) ==
  /\ reflection_table = TableOf(rows, cols)
  /\ mult = Array([i \in 1..Len(rows) |-> rows[i].n])

Init ==
  /\ \/ \E c \in Classes, n \in LargeCounts, low \in LowIntensities, k \in SmallCounts,
           pc \in Classes, pd \in ProbeD, pi \in ProbeIntensities, pf \in ProbeFlags :
          InitTable(LargeTable(c, n, low, k, pc, pd, pi, pf), NormCols)
     \/ \E c1 \in Classes, e1 \in OutlierEsq, f1 \in OutlierFlags,
           c2 \in Classes, e2 \in OutlierEsq, f2 \in OutlierFlags :
          InitTable(<<OutlierRow(c1, e1, f1), OutlierRow(c2, e2, f2)>>,
                    NormCols \cup {"Esq", "centric_flag"})
  /\ experiments = NoExperiments
  /\ status = "ok"
  /\ calls = <<>>
  /\ entry = reflection_table
  /\ table0 = reflection_table
  /\ call = NoLocals

Next == calc_normE2 \/ set_wilson_outliers

Spec == Init /\ [][Next]_vars

\* the experiments and tables of the crystal frame: axes along and against
\* the coordinate axes, of length 1 and 2, and phi in quarter turns
RotationAxes ==
  {Vec3(0, 0, 1), Vec3(1, 0, 0), Vec3(0, 1, 0), Vec3(0, 0, -1), Vec3(0, 0, 2)}
Beams == {Vec3(1, 0, 0), Vec3(0, 1, 0), Vec3(0, 0, 1)}
UnitVectors == {Vec3(1, 0, 0), Vec3(0, 1, 0), Vec3(0, 0, 1)}
PhiValues == {0, 90, 180, -90}

InitFrame ==
  /\ \E phi1 \in PhiValues, phi2 \in PhiValues, v1 \in UnitVectors, v2 \in UnitVectors :
       /\ reflection_table = [phi |-> <<phi1, phi2>>, s1 |-> <<v1, v2>>]
       /\ mult = <<1, 1>>
  /\ \E axis \in RotationAxes, s0 \in Beams :
       experiments = [s0 |-> s0, rotation_axis |-> axis]
  /\ status = "ok"
  /\ calls = <<>>
  /\ entry = reflection_table
  /\ table0 = reflection_table
  /\ call = NoLocals

NextFrame == calc_crystal_frame_vectors

SpecFrame == InitFrame /\ [][NextFrame]_vars

----------------------------------------------------------------------------
(* Properties of calc_normE2 and set_wilson_outliers, under Spec.  entry   *)
(* is the table the last call received, call holds the locals of the last  *)
(* call and table0 is the table before the first call.                     *)

LastCall(op) == calls # <<>> /\ calls[Len(calls)] = op
Returned(op) == LastCall(op) /\ status = "ok"
Rows == 1..Len(mult)
IsBad(t, i) == "bad_for_scaling" \in t["flags"][i]
IsCentric(t, i) == t["miller_index"][i] = "centric"

\* the reflections of one class in the whole table and among the rows not
\* flagged bad_for_scaling
FullCount(t, centric) ==
  Sum(Array([i \in Rows |-> IF IsCentric(t, i) = centric THEN mult[i] ELSE 0]))
GoodCount(t, centric) ==
  Sum(Array([i \in Rows |->
               IF ~IsBad(t, i) /\ IsCentric(t, i) = centric THEN mult[i] ELSE 0]))

EsqAllOne == \A i \in Rows : reflection_table["Esq"][i] = One
FlagsKept == reflection_table["flags"] = entry["flags"]

\* C2 as stated: fewer than 10000 acentric reflections, whatever the number
\* of centric ones, give Esq 1.0 on every row and no change of flags
C2_Original ==
  (LastCall("calc_normE2") /\ FullCount(entry, FALSE) < MinAcentrics)
  => (status = "ok" /\ "Esq" \in DOMAIN reflection_table /\ EsqAllOne /\ FlagsKept)

\* C3 as stated: on the path with shells, with both classes present and
\* counts of at least 10000, Esq of every row with d # 0 is finite and not
\* negative
C3_Original ==
  (/\ Returned("calc_normE2")
   /\ call.path = "shells"
   /\ call.n_centrics >= MinAcentrics
   /\ call.n_acentrics >= MinAcentrics)
  => \A i \in Rows :
       entry["d"][i] # Zero =>
         (IsFinite(reflection_table["Esq"][i]) /\ ~Lt(reflection_table["Esq"][i], Zero))

\* the shells of one class that hold a resolution
ShellsOf(r, limits) ==
  {k \in 1..(Len(limits) - 1) : GtLimit(r, limits[k]) /\ LeLimit(r, limits[k + 1])}
LimitsOf(centric) ==
  IF centric THEN call.centric_bin_limits ELSE call.acentric_bin_limits
MeansOf(centric) ==
  IF centric THEN call.mean_centric_values ELSE call.mean_acentric_values

\* C4: on the path with shells a row whose d was 0 on entry comes back with
\* d = 0 and Esq = 0, and every other row with its d unchanged
C4_ZeroDRestored ==
  (Returned("calc_normE2") /\ call.path = "shells")
  => \A i \in Rows :
       IF entry["d"][i] = Zero
       THEN reflection_table["d"][i] = Zero /\ reflection_table["Esq"][i] = Zero
       ELSE reflection_table["d"][i] = entry["d"][i]

\* a row with d = 0 and a non-zero intensity whose sentinel resolution 1.0
\* lies in a shell of its class, next to a row whose d is 1.0
C4_Witness ==
  /\ Returned("calc_normE2")
  /\ call.path = "shells"
  /\ \E i \in Rows :
       /\ entry["d"][i] = Zero
       /\ entry["intensity"][i] # 0
       /\ ShellsOf(One, LimitsOf(IsCentric(entry, i))) # {}
       /\ reflection_table["Esq"][i] = Zero
  /\ \E j \in Rows : entry["d"][j] # Zero /\ reflection_table["Esq"][j] # Zero

IsOutlier(t, i) == "outlier_in_scaling" \in t["flags"][i]
ExceedsCutoff(t, i) ==
  \/ t["centric_flag"][i] /\ Lt(centric_cutoff, t["Esq"][i])
  \/ ~t["centric_flag"][i] /\ Lt(acentric_cutoff, t["Esq"][i])

\* C5: after set_wilson_outliers a row is flagged outlier_in_scaling iff it
\* was flagged before or exceeds the cutoff of its class, and no other flag
\* of any row has changed
C5_OutlierFlags ==
  Returned("set_wilson_outliers") =>
    \A i \in Rows :
      /\ IsOutlier(reflection_table, i) <=> (IsOutlier(entry, i) \/ ExceedsCutoff(entry, i))
      /\ reflection_table["flags"][i] \ {"outlier_in_scaling"}
           = entry["flags"][i] \ {"outlier_in_scaling"}

\* one row exactly at its cutoff that stays unflagged, one row that is newly
\* flagged and keeps another flag
C5_Witness ==
  /\ Returned("set_wilson_outliers")
  /\ \E i \in Rows :
       /\ entry["centric_flag"][i]
       /\ entry["Esq"][i] = centric_cutoff
       /\ ~IsOutlier(reflection_table, i)
  /\ \E j \in Rows :
       /\ ~IsOutlier(entry, j)
       /\ IsOutlier(reflection_table, j)
       /\ reflection_table["flags"][j] # {"outlier_in_scaling"}

WorkingColumns == {"intensity_for_norm", "centric_flag", "resolution"}

RotZ(v, f) ==
  <<Sub(Mul(v[1], Cos(f)), Mul(v[2], Sin(f))),
    Add(Mul(v[1], Sin(f)), Mul(v[2], Cos(f))),
    v[3]>>

\* C7, under SpecFrame: with the rotation axis (0,0,1), s1c and s0c are s1
\* and s0 turned about z by -phi*pi/180, entry for entry, with no further
\* rotation, and s0 is the beam vector on every row
C7_CanonicalAxis ==
  (Returned("calc_crystal_frame_vectors") /\ experiments.rotation_axis = Vec3(0, 0, 1))
  => /\ Len(reflection_table["s0"]) = Len(mult)
     /\ \A i \in Rows :
          /\ reflection_table["s0"][i] = experiments.s0
          /\ reflection_table["s1c"][i]
               = RotZ(entry["s1"][i], Frac(-entry["phi"][i], 180))
          /\ reflection_table["s0c"][i]
               = RotZ(experiments.s0, Frac(-entry["phi"][i], 180))

\* a row that a non-zero phi turns, for both of its vectors
C7_Witness ==
  /\ Returned("calc_crystal_frame_vectors")
  /\ experiments.rotation_axis = Vec3(0, 0, 1)
  /\ \E i \in Rows :
       /\ entry["phi"][i] # 0
       /\ reflection_table["s1c"][i] # entry["s1"][i]
       /\ reflection_table["s0c"][i] # experiments.s0

\* the clamped mean intensity of the rows of entry not flagged
\* bad_for_scaling, of one class, with lower <= 1/d^2 < upper
ClampedMean(centric, lower, upper) ==
  LET in == Array([i \in Rows |->
                     /\ ~IsBad(entry, i)
                     /\ IsCentric(entry, i) = centric
                     /\ ~LtLimit(Recip(Pow2(entry["d"][i])), lower)
                     /\ LtLimit(Recip(Pow2(entry["d"][i])), upper)])
      n  == Sum(Array([i \in Rows |-> IF in[i] THEN mult[i] ELSE 0]))
      s  == Sum(Array([i \in Rows |->
                         IF in[i] /\ entry["intensity"][i] > 0
                         THEN mult[i] * entry["intensity"][i] ELSE 0]))
  IN  IF n = 0 THEN None ELSE Frac(s, n)

\* C8: every shell mean is the mean of the intensities with the negative
\* ones counted as 0.0, and the intensity column of the table is the one the
\* call received
C8_ClampedMeans ==
  LastCall("calc_normE2") =>
    /\ reflection_table["intensity"] = entry["intensity"]
    /\ \A centric \in BOOLEAN :
         \A k \in 1..Len(MeansOf(centric)) :
           MeansOf(centric)[k]
             = ClampedMean(centric, LimitsOf(centric)[k], LimitsOf(centric)[k + 1])

\* a negative intensity in a shell whose mean is positive, in a call that
\* returned with both classes present
C8_Witness ==
  /\ Returned("calc_normE2")
  /\ call.path = "shells"
  /\ call.n_centrics > 0
  /\ call.n_acentrics > 0
  /\ \E i \in Rows :
       /\ ~IsBad(entry, i)
       /\ entry["intensity"][i] < 0
       /\ \E k \in 1..Len(MeansOf(IsCentric(entry, i))) :
            LET lim == LimitsOf(IsCentric(entry, i))
                r   == Recip(Pow2(entry["d"][i]))
            IN  /\ ~LtLimit(r, lim[k])
                /\ LtLimit(r, lim[k + 1])
                /\ Lt(Zero, MeansOf(IsCentric(entry, i))[k])

\* C9: on the path with shells a row with d # 0, flagged bad_for_scaling or
\* not, lies in at most one shell of its class, the one with
\* limits[i] < 1/d^2 <= limits[i+1]; its Esq is its intensity over the mean
\* of that shell, and 0.0 if no shell holds it
C9_ShellAssignment ==
  (Returned("calc_normE2") /\ call.path = "shells")
  => \A i \in Rows :
       entry["d"][i] # Zero =>
         LET centric == IsCentric(entry, i)
             S == ShellsOf(Recip(Pow2(entry["d"][i])), LimitsOf(centric))
         IN  /\ Cardinality(S) <= 1
             /\ S = {} => reflection_table["Esq"][i] = Zero
             /\ \A k \in S :
                  reflection_table["Esq"][i]
                    = Div(<<entry["intensity"][i], 1>>, MeansOf(centric)[k])

\* a row at the lowest limit of its class left at 0.0, a row at an inner
\* limit normalised by the shell below the limit, and a row flagged
\* bad_for_scaling that is normalised
C9_Witness ==
  /\ Returned("calc_normE2")
  /\ call.path = "shells"
  /\ call.n_centrics > 0
  /\ call.n_acentrics > 0
  /\ \E i \in Rows :
       /\ entry["d"][i] # Zero
       /\ entry["intensity"][i] # 0
       /\ Recip(Pow2(entry["d"][i])) = LimitsOf(IsCentric(entry, i))[1].q
       /\ reflection_table["Esq"][i] = Zero
  /\ \E i \in Rows :
       LET lim == LimitsOf(IsCentric(entry, i))
       IN  \E k \in 2..(Len(lim) - 1) :
             /\ entry["d"][i] # Zero
             /\ Recip(Pow2(entry["d"][i])) = lim[k].q
             /\ MeansOf(IsCentric(entry, i))[k - 1] # MeansOf(IsCentric(entry, i))[k]
             /\ reflection_table["Esq"][i] # Zero
  /\ \E i \in Rows :
       /\ IsBad(entry, i)
       /\ entry["d"][i] # Zero
       /\ reflection_table["Esq"][i] # Zero

\* C10 as stated: a row with d = 0 stays out of the statistics: every
\* resolution of the statistics subset is finite, and so is the bin width
C10_Original ==
  LastCall("calc_normE2") =>
    /\ \A k \in 1..Len(call.subset_mult) :
         IsFinite(call.rt_subset["resolution"][k])
    /\ IsFinite(call.step.q)

IsNaNVector(v) == v[1] = NaN \/ v[2] = NaN \/ v[3] = NaN

\* C11 as stated, under SpecFrame: for a rotation axis with ux = 0 and
\* uy = 0 the re-alignment returns before the rotator, which is never
\* handed the zero-length axis (uy, -ux, 0), and the vectors it returns
\* hold no NaN
C11_Original ==
  (/\ Returned("calc_crystal_frame_vectors")
   /\ experiments.rotation_axis[1] = Zero
   /\ experiments.rotation_axis[2] = Zero)
  => /\ call.cross_prod_uz = <<>>
     /\ \A i \in Rows :
          /\ ~IsNaNVector(reflection_table["s1c"][i])
          /\ ~IsNaNVector(reflection_table["s0c"][i])

\* C12 as stated: after calc_normE2 has returned on the path with shells
\* the table holds Esq and centric_flag, and set_wilson_outliers called
\* next on a table that did not take the fallback returns
C12_Original ==
  /\ (Returned("calc_normE2") /\ call.path = "shells")
       => {"Esq", "centric_flag"} \subseteq DOMAIN reflection_table
  /\ (/\ calls = <<"calc_normE2", "set_wilson_outliers">>
      /\ n_refl_shells_rule(GoodCount(table0, TRUE), GoodCount(table0, FALSE)) # Fallback)
       => status = "ok"

====
